---- MODULE Spec2Model ----
(***************************************************************************)
(* Model of brailleify.py: the bit-permutation codec that maps a byte to a *)
(* Braille cell (shuffle / unshuffle) and its lifting to sequences         *)
(* (brailleify / unbrailleify).                                            *)
(*                                                                         *)
(* Python integers are unbounded and `&` on a negative integer works on    *)
(* its infinite two's-complement form; And below follows that definition.  *)
(* A str is a sequence of characters, a character is [ord |-> code point]. *)
(* A call that raises is the record [raised |-> TRUE, value |-> <<>>].     *)
(***************************************************************************)
EXTENDS Integers, Sequences, FiniteSets

VARIABLES
    pc,       \* the call (or chain of two calls) that produced this state
    byte,     \* argument of the scalar call
    res,      \* result of the scalar call (of the second call in a chain)
    data,     \* argument of brailleify
    braille,  \* result of brailleify / argument of unbrailleify
    decoded,  \* result of unbrailleify
    raised    \* whether the last call raised

vars == <<pc, byte, res, data, braille, decoded, raised>>

\* ---------------------------------------------------------------- bounds
\* Longest sequence / string of the enumerated inputs.
MaxLen == 3
\* Scalar arguments of shuffle / unshuffle range over -MaxInt .. MaxInt.
MaxInt == 600

\* ------------------------------------------------------- program constants
BRAILLE_START_POINT == 10240

\* ------------------------------------------------ Python integer operators
RECURSIVE And(_, _)
\* x & m for a mask m >= 0; x may be negative (floor division and the
\* non-negative remainder give the two's-complement bits of x).
And(x, m) == IF m = 0 THEN 0
             ELSE (x % 2) * (m % 2) + 2 * And(x \div 2, m \div 2)

RECURSIVE Or(_, _)
\* a | b for a, b >= 0.
Or(a, b) == IF a = 0 THEN b
            ELSE IF b = 0 THEN a
            ELSE (IF a % 2 = 1 \/ b % 2 = 1 THEN 1 ELSE 0)
                 + 2 * Or(a \div 2, b \div 2)

\* a << k
Shl(a, k) == a * 2^k

\* a >> k
Shr(a, k) == a \div 2^k

\* ------------------------------------------------------- Python built-ins
Ok(v) == [raised |-> FALSE, value |-> v]

ValueError == [raised |-> TRUE, value |-> <<>>]

\* chr(n) raises ValueError unless n is in range(0x110000).
InChrRange(n) == n \in 0..1114111

\* chr(n): the character with code point n.

Chr(n) == [ord |-> n]

\* ord(c)
Ord(c) == c.ord

\* bytes(iterable of ints): ValueError unless every element is in range(256).
Bytes(s) == IF \A i \in 1..Len(s) : s[i] \in 0..255 THEN Ok(s) ELSE ValueError

\* ------------------------------------------------------------------ codec
\* The bit relocation the spec's table of section 4.1 describes
\* (1 -> 4, 2 -> 6, 4 -> 5), a plausible mis-wiring of the three middle terms.
shuffle_table(b) ==
    Or(Or(Or(Or(Or(Or(
        Shl(And(b, 1), 7),
        Shl(And(b, 2), 3)),
        Or(Shl(And(b, 4), 4), Shl(And(b, 16), 1))),
        Shr(And(b, 32), 3)),
        Shr(And(b, 64), 5)),
        Shr(And(b, 128), 7)),
        And(b, 8))

\* shuffle with the first shift one position too far (<< 8 instead of << 7).
shuffle_wide(b) ==
    Or(Or(Or(Or(Or(Or(
        Shl(And(b, 1), 8),
        Shl(And(b, 2), 4)),
        Shl(And(b, 20), 2)),
        Shr(And(b, 32), 3)),
        Shr(And(b, 64), 5)),
        Shr(And(b, 128), 7)),
        And(b, 8))

\* shuffle that drops bit 8 of the input and duplicates bit 7 instead
\* (mask 0b01000000 used twice).
shuffle_dup(b) ==
    Or(Or(Or(Or(Or(Or(
        Shl(And(b, 1), 7),
        Shl(And(b, 2), 4)),
        Shl(And(b, 20), 2)),
        Shr(And(b, 32), 3)),
        Shr(And(b, 64), 5)),
        Shr(And(b, 64), 6)),
        And(b, 8))

shuffle(b) ==
    Or(Or(Or(Or(Or(Or(
        Shl(And(b, 1), 7),
        Shl(And(b, 2), 4)),
        Shl(And(b, 20), 2)),
        Shr(And(b, 32), 3)),
        Shr(And(b, 64), 5)),
        Shr(And(b, 128), 7)),
        And(b, 8))

\* unshuffle with the first mask one bit too wide (0b110000000).
unshuffle_widemask(b) ==
    Or(Or(Or(Or(Or(Or(
        Shr(And(b, 384), 7),
        Shr(And(b, 32), 4)),
        Shr(And(b, 80), 2)),
        Shl(And(b, 4), 3)),
        Shl(And(b, 2), 5)),
        Shl(And(b, 1), 7)),
        And(b, 8))

\* unshuffle with the shifts of the second and third terms exchanged.
unshuffle_swapped(b) ==
    Or(Or(Or(Or(Or(Or(
        Shr(And(b, 128), 7),
        Shr(And(b, 32), 2)),
        Shr(And(b, 80), 4)),
        Shl(And(b, 4), 3)),
        Shl(And(b, 2), 5)),
        Shl(And(b, 1), 7)),
        And(b, 8))

unshuffle(b) ==
    Or(Or(Or(Or(Or(Or(
        Shr(And(b, 128), 7),
        Shr(And(b, 32), 4)),
        Shr(And(b, 80), 2)),
        Shl(And(b, 4), 3)),
        Shl(And(b, 2), 5)),
        Shl(And(b, 1), 7)),
        And(b, 8))

RECURSIVE Join(_)
\* ''.join(parts): the concatenation of the parts, in iteration order.
Join(parts) == IF parts = <<>> THEN <<>>
               ELSE Head(parts) \o Join(Tail(parts))

\* The generator of brailleify: one code point per element of d, in order.
CodePoints(d) == [i \in 1..Len(d) |-> BRAILLE_START_POINT + shuffle(d[i])]

\* brailleify that joins the cells in reverse order.
brailleify_reversed(d) ==
    LET cps == CodePoints(d)
    IN  IF \A i \in 1..Len(cps) : InChrRange(cps[i])
        THEN Ok(Join([i \in 1..Len(cps) |-> <<Chr(cps[Len(cps) + 1 - i])>>]))
        ELSE ValueError

\* brailleify that folds the cells with + and no initial value, which raises
\* on an empty iterable.
brailleify_reduce(d) ==
    LET cps == CodePoints(d)
    IN  IF d # <<>> /\ \A i \in 1..Len(cps) : InChrRange(cps[i])
        THEN Ok(Join([i \in 1..Len(cps) |-> <<Chr(cps[i])>>]))
        ELSE ValueError

brailleify(d) ==
    LET cps == CodePoints(d)
    IN  IF \A i \in 1..Len(cps) : InChrRange(cps[i])
        THEN Ok(Join([i \in 1..Len(cps) |-> <<Chr(cps[i])>>]))
        ELSE ValueError

\* unbrailleify that validates the block and raises outside it.
unbrailleify_checked(s) ==
    IF \A i \in 1..Len(s) :
           Ord(s[i]) - BRAILLE_START_POINT \in 0..255
    THEN Bytes([i \in 1..Len(s) |->
                   unshuffle(Ord(s[i]) - BRAILLE_START_POINT)])
    ELSE ValueError

\* unbrailleify that decodes the characters back to front.
unbrailleify_reversed(s) ==
    Bytes([i \in 1..Len(s) |->
              unshuffle(Ord(s[Len(s) + 1 - i]) - BRAILLE_START_POINT)])

unbrailleify(s) ==
    Bytes([i \in 1..Len(s) |->
              unshuffle(Ord(s[i]) - BRAILLE_START_POINT)])

\* ----------------------------------------------------------------- inputs
Byte == 0..255

Ints == (0 - MaxInt)..MaxInt

SeqsUpTo(S, n) == UNION {[1..k -> S] : k \in 0..n}

\* The argument lists of the doctests of brailleify.
Doctests == { <<136, 17, 240, 15>>, <<170, 85, 246, 111>>, <<201, 156, 147, 57>> }

\* The expected strings of the doctests, as code points.
DoctestCells == { <<10249, 10432, 10311, 10424>>, <<10285, 10450, 10359, 10430>>,
                  <<10379, 10329, 10465, 10444>> }

SampleBytes == {0, 255} \cup UNION {{d[i] : i \in 1..Len(d)} : d \in Doctests}

ByteSeqs == {<<b>> : b \in Byte} \cup SeqsUpTo(SampleBytes, MaxLen) \cup Doctests

Block == BRAILLE_START_POINT..(BRAILLE_START_POINT + 255)

\* Code points outside the Braille block: 'A', the two neighbours of the
\* block, NUL and the last code point.
OutOfBlock == {65, 10239, 10496, 0, 1114111}

SampleChars == {Chr(n) : n \in {10240, 10249, 10432, 10311, 10424, 10495} \cup OutOfBlock}

Strings == {<<Chr(n)>> : n \in Block} \cup SeqsUpTo(SampleChars, MaxLen)
           \cup {[i \in 1..Len(c) |-> Chr(c[i])] : c \in DoctestCells}

\* ---------------------------------------------------------- state machine
\* Every call is a fresh invocation from the start state; the functions keep
\* no state between calls.
Init ==
    /\ pc = "start"
    /\ byte = 0
    /\ res = 0
    /\ data = <<>>
    /\ braille = <<>>
    /\ decoded = <<>>
    /\ raised = FALSE

CallShuffle ==
    /\ pc = "start"
    /\ \E b \in Ints :
        /\ pc' = "shuffle"
        /\ byte' = b
        /\ res' = shuffle(b)
        /\ data' = <<>> /\ braille' = <<>> /\ decoded' = <<>>
        /\ raised' = FALSE

CallUnshuffle ==
    /\ pc = "start"
    /\ \E b \in Ints :
        /\ pc' = "unshuffle"
        /\ byte' = b
        /\ res' = unshuffle(b)
        /\ data' = <<>> /\ braille' = <<>> /\ decoded' = <<>>
        /\ raised' = FALSE

\* unshuffle(shuffle(byte))
UnshuffleResult ==
    /\ pc = "shuffle"
    /\ pc' = "shuffle-unshuffle"
    /\ res' = unshuffle(res)
    /\ UNCHANGED <<byte, data, braille, decoded, raised>>

\* shuffle(unshuffle(byte))
ShuffleResult ==
    /\ pc = "unshuffle"
    /\ pc' = "unshuffle-shuffle"
    /\ res' = shuffle(res)
    /\ UNCHANGED <<byte, data, braille, decoded, raised>>

CallBrailleify ==
    /\ pc = "start"
    /\ \E d \in ByteSeqs :
        LET r == brailleify(d) IN
        /\ pc' = "brailleify"
        /\ data' = d
        /\ braille' = r.value
        /\ raised' = r.raised
        /\ decoded' = <<>>
        /\ byte' = 0 /\ res' = 0

CallUnbrailleify ==
    /\ pc = "start"
    /\ \E s \in Strings :
        LET r == unbrailleify(s) IN
        /\ pc' = "unbrailleify"
        /\ braille' = s
        /\ decoded' = r.value
        /\ raised' = r.raised
        /\ data' = <<>>
        /\ byte' = 0 /\ res' = 0

\* unbrailleify(brailleify(data))
UnbrailleifyResult ==
    /\ pc = "brailleify"
    /\ ~raised
    /\ LET r == unbrailleify(braille) IN
        /\ pc' = "brailleify-unbrailleify"
        /\ decoded' = r.value
        /\ raised' = r.raised
    /\ UNCHANGED <<byte, res, data, braille>>

Next ==
    \/ CallShuffle
    \/ CallUnshuffle
    \/ UnshuffleResult
    \/ ShuffleResult
    \/ CallBrailleify
    \/ CallUnbrailleify
    \/ UnbrailleifyResult

Spec == Init /\ [][Next]_vars

TypeOK ==
    /\ byte \in Ints
    /\ res \in Int
    /\ raised \in BOOLEAN
    /\ \A i \in 1..Len(data) : data[i] \in Byte
    /\ \A i \in 1..Len(decoded) : decoded[i] \in Int

\* ----------------------------------------------------------------- claims
\* Bit i (0 = least significant) of x.
Bit(x, i) == (x \div 2^i) % 2

\* Whether every character of the string s lies in the Braille block.
InBlock(s) == \A i \in 1..Len(s) : Ord(s[i]) \in Block

\* C1: decoding the encoding of a byte sequence gives the sequence back,
\* element for element and in the same order, without raising.
C1_RoundTrip ==
    pc = "brailleify-unbrailleify" => ~raised /\ decoded = data

C1_Witness ==
    /\ pc = "brailleify-unbrailleify"
    /\ data = <<201, 156, 147, 57>>
    /\ decoded = data

\* C2: on bytes, unshuffle undoes shuffle and shuffle undoes unshuffle.
C2_MutualInverses ==
    pc \in {"shuffle-unshuffle", "unshuffle-shuffle"} /\ byte \in Byte
        => res = byte

C2_Witness ==
    pc = "unshuffle-shuffle" /\ byte = 82 /\ res = 82

\* The table of section 4.1 of the spec: <<source bit, destination bit>>.
SpecTable == { <<0, 7>>, <<1, 4>>, <<2, 6>>, <<3, 3>>,
               <<4, 5>>, <<5, 2>>, <<6, 1>>, <<7, 0>> }

\* The relocation the masks and shifts of shuffle perform.
CodeTable == { <<0, 7>>, <<1, 5>>, <<2, 4>>, <<3, 3>>,
               <<4, 6>>, <<5, 2>>, <<6, 1>>, <<7, 0>> }

\* C3 as stated: bit d of shuffle(b) is bit s of b for every pair <<s, d>>
\* of the spec's table.
C3_SpecTable ==
    pc = "shuffle" /\ byte \in Byte
        => \A t \in SpecTable : Bit(res, t[2]) = Bit(byte, t[1])

\* C3 amended: bit d of shuffle(b) is bit s of b for every pair <<s, d>> of
\* 0->7, 1->5, 2->4, 3->3, 4->6, 5->2, 6->1, 7->0.
C3_CodeTable ==
    pc = "shuffle" /\ byte \in Byte
        => \A t \in CodeTable : Bit(res, t[2]) = Bit(byte, t[1])

C3_Witness ==
    pc = "shuffle" /\ byte = 22 /\ res = 112

C5_Range ==
    /\ pc = "shuffle" /\ byte \in Byte => res \in 0..255
    /\ pc = "brailleify"
        => /\ Len(braille) = Len(data)
           /\ \A i \in 1..Len(braille) :
                 /\ Ord(braille[i]) >= BRAILLE_START_POINT
                 /\ Ord(braille[i]) <= BRAILLE_START_POINT + 255

C5_Witness ==
    /\ pc = "brailleify"
    /\ data = <<255, 0, 15>>
    /\ braille = <<Chr(10495), Chr(10240), Chr(10424)>>

\* C6: the byte-to-cell mapping is one-to-one (no other byte gives the cell
\* of this byte) and onto the block (every cell of the block is the cell of
\* some byte).
C6_Bijection ==
    /\ pc = "brailleify" /\ Len(data) = 1
        => /\ Len(braille) = 1 /\ InBlock(braille)
           /\ \A b \in Byte \ {data[1]} : brailleify(<<b>>) # Ok(braille)
    /\ pc = "unbrailleify" /\ Len(braille) = 1 /\ InBlock(braille)
        => \E b \in Byte : brailleify(<<b>>) = Ok(braille)

C6_Witness ==
    pc = "brailleify" /\ data = <<128>> /\ braille = <<Chr(10241)>>

\* Input bit numbers (1 = least significant) read off the result from its
\* most to its least significant bit: 87654321 becomes 15234678.
Rearranged == <<1, 5, 2, 3, 4, 6, 7, 8>>

\* Braille dot numbers of the two columns, top to bottom (dot n is bit n - 1
\* of the low byte of the code point), and the input bits that light them.
LeftDots == <<1, 2, 3, 7>>

RightDots == <<4, 5, 6, 8>>

LeftBits == <<8, 7, 6, 5>>

RightBits == <<4, 3, 2, 1>>

\* The doctests of brailleify: argument and expected code points.
DoctestVectors ==
    { << <<136, 17, 240, 15>>,   <<10249, 10432, 10311, 10424>> >>,
      << <<170, 85, 246, 111>>,  <<10285, 10450, 10359, 10430>> >>,
      << <<201, 156, 147, 57>>,  <<10379, 10329, 10465, 10444>> >> }

\* C7: the cell of a byte has the byte's bits rearranged from 87654321 to
\* 15234678, so that bits 8,7,6,5 light the left column and bits 4,3,2,1
\* the right column, top to bottom; the doctest vectors are instances.
C7_Rearranged ==
    /\ pc = "brailleify" /\ Len(data) = 1
        => /\ Len(braille) = 1
           /\ LET low == Ord(braille[1]) - BRAILLE_START_POINT IN
              /\ low \in Byte
              /\ \A k \in 1..8 : Bit(low, 8 - k) = Bit(data[1], Rearranged[k] - 1)
              /\ \A r \in 1..4 :
                    /\ Bit(low, LeftDots[r] - 1) = Bit(data[1], LeftBits[r] - 1)
                    /\ Bit(low, RightDots[r] - 1) = Bit(data[1], RightBits[r] - 1)
    /\ \A v \in DoctestVectors :
          pc = "brailleify" /\ data = v[1]
              => braille = [i \in 1..Len(v[2]) |-> Chr(v[2][i])]

C7_Witness ==
    /\ pc = "brailleify"
    /\ data = <<136, 17, 240, 15>>
    /\ braille = <<Chr(10249), Chr(10432), Chr(10311), Chr(10424)>>

\* C8: the empty byte sequence encodes to the empty string and the empty
\* string decodes to the empty byte sequence; neither call raises.
C8_Empty ==
    /\ pc = "brailleify" /\ data = <<>> => ~raised /\ braille = <<>>
    /\ pc = "unbrailleify" /\ braille = <<>> => ~raised /\ decoded = <<>>

C8_Witness ==
    pc = "brailleify" /\ data = <<>> /\ braille = <<>> /\ ~raised

\* C9: encoding and decoding distribute over concatenation at every split
\* point, and the i-th output element is the result for the i-th input
\* element alone.
C9_PositionWise ==
    /\ pc = "brailleify"
        => /\ \A k \in 0..Len(data) :
                 braille = brailleify(SubSeq(data, 1, k)).value
                           \o brailleify(SubSeq(data, k + 1, Len(data))).value
           /\ \A i \in 1..Len(data) : <<braille[i]>> = brailleify(<<data[i]>>).value
    /\ pc = "unbrailleify" /\ InBlock(braille)
        => /\ \A k \in 0..Len(braille) :
                 decoded = unbrailleify(SubSeq(braille, 1, k)).value
                           \o unbrailleify(SubSeq(braille, k + 1, Len(braille))).value
           /\ \A i \in 1..Len(braille) : <<decoded[i]>> = unbrailleify(<<braille[i]>>).value

C9_Witness ==
    /\ pc = "brailleify"
    /\ data = <<136, 17, 240>>
    /\ braille = <<Chr(10249), Chr(10432), Chr(10311)>>

\* C10: shuffle and unshuffle depend only on the low 8 bits of any integer
\* argument and give a byte; so unbrailleify never raises, and a character
\* outside the block decodes like the cell with the same low byte.
C10_LowEightBits ==
    /\ pc = "shuffle" => res = shuffle(byte % 256) /\ res \in Byte
    /\ pc = "unshuffle" => res = unshuffle(byte % 256) /\ res \in Byte
    /\ pc = "unbrailleify"
        => /\ ~raised
           /\ Len(decoded) = Len(braille)
           /\ \A i \in 1..Len(braille) :
                 <<decoded[i]>> =
                     unbrailleify(<<Chr(BRAILLE_START_POINT + (Ord(braille[i]) % 256))>>).value

C10_Witness ==
    \/ pc = "unshuffle" /\ byte < 0 /\ res = unshuffle(byte % 256)
    \/ pc = "unbrailleify" /\ braille = <<Chr(65)>> /\ decoded = <<144>>

====
